---------------------------- MODULE Spec2Model ----------------------------
(***************************************************************************)
(* A model of pytomlcleaner (src/src/pytomlcleaner/cleaner.py): the        *)
(* dependency analyzer (resolver, scanners, classifier) and the manifest   *)
(* mutation remove_unused_dependencies.                                    *)
(*                                                                         *)
(* A Python str is a sequence of one-character strings, so that lower(),   *)
(* replace(), split(), strip() and the `in` substring test are computed    *)
(* character by character as Python computes them.                         *)
(***************************************************************************)
EXTENDS Integers, Sequences, FiniteSets, TLC

(***************************************************************************)
(* Python str methods                                                      *)
(***************************************************************************)
UpperCase ==
    <<"A","B","C","D","E","F","G","H","I","J","K","L","M",
      "N","O","P","Q","R","S","T","U","V","W","X","Y","Z">>

LowerCase ==
    <<"a","b","c","d","e","f","g","h","i","j","k","l","m",
      "n","o","p","q","r","s","t","u","v","w","x","y","z">>

Digits == {"0","1","2","3","4","5","6","7","8","9"}

Whitespace == {" ", "\t", "\n", "\r"}

Range(s) == {s[i] : i \in 1..Len(s)}

\* one character of str.lower()
LowerChar(c) ==
    IF \E i \in 1..26 : UpperCase[i] = c
    THEN LowerCase[CHOOSE i \in 1..26 : UpperCase[i] = c]
    ELSE c

\* s.lower()
Lower(s) == [i \in 1..Len(s) |-> LowerChar(s[i])]

\* s.replace(old, new) for a one-character old and a new of any length
RECURSIVE Replace(_, _, _)
Replace(s, old, new) ==
    IF s = <<>> THEN <<>>
    ELSE (IF Head(s) = old THEN new ELSE <<Head(s)>>) \o Replace(Tail(s), old, new)

\* s.split(sep)[0] for a one-character sep: the text before the first sep
SplitFirst(s, sep) ==
    IF \E i \in 1..Len(s) : s[i] = sep
    THEN SubSeq(s, 1, (CHOOSE i \in 1..Len(s) :
                          s[i] = sep /\ \A j \in 1..(i-1) : s[j] # sep) - 1)
    ELSE s

\* s.strip()
Strip(s) ==
    LET keep == {i \in 1..Len(s) : s[i] \notin Whitespace}
    IN  IF keep = {} THEN <<>>
        ELSE SubSeq(s, CHOOSE i \in keep : \A j \in keep : i <= j,
                       CHOOSE i \in keep : \A j \in keep : i >= j)

\* `sub in s` for two str
Contains(sub, s) ==
    \E i \in 1..(Len(s) - Len(sub) + 1) : SubSeq(s, i, i + Len(sub) - 1) = sub

\* a dotted module path split at "." into its non-empty parts
RECURSIVE SplitDots(_)
SplitDots(s) ==
    IF s = <<>> THEN <<>>
    ELSE LET first == SplitFirst(s, ".")
             rest  == IF Len(first) = Len(s) THEN <<>>
                      ELSE SubSeq(s, Len(first) + 2, Len(s))
         IN  (IF first = <<>> THEN <<>> ELSE <<first>>) \o SplitDots(rest)

(***************************************************************************)
(* normalize_name and is_similar                                           *)
(***************************************************************************)
\* Mutation: underscores are kept
KeepUnderscores(name) == Lower(Replace(name, "-", <<>>))

normalize_name(name) == Lower(Replace(Replace(name, "-", <<>>), "_", <<>>))

\* length of the common run of a[i..ahi] and b[j..bhi] (1-based, inclusive)
RECURSIVE CommonLen(_, _, _, _, _, _)
CommonLen(a, b, i, j, ahi, bhi) ==
    IF i > ahi \/ j > bhi \/ a[i] # b[j] THEN 0
    ELSE 1 + CommonLen(a, b, i + 1, j + 1, ahi, bhi)

\* difflib.SequenceMatcher.find_longest_match on a[alo..ahi], b[blo..bhi]:
\* the longest matching block, of those the one starting earliest in a,
\* and of those the one starting earliest in b (no junk: autojunk only
\* applies to sequences of 200 or more elements)
find_longest_match(a, b, alo, ahi, blo, bhi) ==
    LET blocks == {<<i, j, CommonLen(a, b, i, j, ahi, bhi)>> :
                      i \in alo..ahi, j \in blo..bhi}
        real   == {m \in blocks : m[3] > 0}
        Better(m, n) == \/ m[3] > n[3]
                        \/ m[3] = n[3] /\ m[1] < n[1]
                        \/ m[3] = n[3] /\ m[1] = n[1] /\ m[2] <= n[2]
    IN  IF real = {} THEN <<alo, blo, 0>>
        ELSE CHOOSE m \in real : \A n \in real : Better(m, n)

\* the total size of difflib's get_matching_blocks: the longest block, then
\* recursively the pieces to its left and to its right
RECURSIVE MatchedSize(_, _, _, _, _, _)
MatchedSize(a, b, alo, ahi, blo, bhi) ==
    IF alo > ahi \/ blo > bhi THEN 0
    ELSE LET m == find_longest_match(a, b, alo, ahi, blo, bhi)
         IN  IF m[3] = 0 THEN 0
             ELSE m[3]
                  + MatchedSize(a, b, alo, m[1] - 1, blo, m[2] - 1)
                  + MatchedSize(a, b, m[1] + m[3], ahi, m[2] + m[3], bhi)

\* the default threshold 0.6 as a fraction ThresholdNum / ThresholdDen
ThresholdNum == 6

ThresholdDen == 10

\* SequenceMatcher(None, a, b).ratio() >= threshold, with
\* ratio = 2 * matches / (len(a) + len(b)) and 1.0 for two empty sequences
RatioAtLeast(a, b, num, den) ==
    IF Len(a) + Len(b) = 0 THEN den >= num
    ELSE 2 * MatchedSize(a, b, 1, Len(a), 1, Len(b)) * den >= num * (Len(a) + Len(b))

\* Mutation: no shortcut for equal or contained names, the ratio decides alone
RatioOnlySimilar(package_name, import_name, num, den) ==
    RatioAtLeast(normalize_name(package_name), normalize_name(import_name), num, den)

\* is_similar(package_name, import_name, threshold), threshold = num / den
is_similar_with(package_name, import_name, num, den) ==
    LET norm_pkg == normalize_name(package_name)
        norm_imp == normalize_name(import_name)
    IN  \/ norm_pkg = norm_imp
        \/ Contains(norm_pkg, norm_imp)
        \/ Contains(norm_imp, norm_pkg)
        \/ RatioAtLeast(norm_pkg, norm_imp, num, den)

\* is_similar(package_name, import_name) with the default threshold
is_similar(package_name, import_name) ==
    is_similar_with(package_name, import_name, ThresholdNum, ThresholdDen)

(***************************************************************************)
(* Program constants                                                       *)
(***************************************************************************)
\* the built-in table, in source order: <<package name, import names>>
BASE_MAPPING ==
    <<<<<<"o","p","e","n","c","v","-","p","y","t","h","o","n">>,
        <<<<"c","v","2">>>>>>,
      <<<<"o","p","e","n","c","v","-","c","o","n","t","r","i","b","-","p","y","t","h","o","n">>,
        <<<<"c","v","2">>>>>>,
      <<<<"s","c","i","k","i","t","-","l","e","a","r","n">>,
        <<<<"s","k","l","e","a","r","n">>>>>>,
      <<<<"s","c","i","k","i","t","-","i","m","a","g","e">>,
        <<<<"s","k","i","m","a","g","e">>>>>>,
      <<<<"t","e","n","s","o","r","b","o","a","r","d">>,
        <<<<"t","e","n","s","o","r","b","o","a","r","d">>>>>>,
      <<<<"p","i","l","l","o","w">>,
        <<<<"P","I","L">>>>>>,
      <<<<"b","e","a","u","t","i","f","u","l","s","o","u","p","4">>,
        <<<<"b","s","4">>>>>>,
      <<<<"p","y","y","a","m","l">>,
        <<<<"y","a","m","l">>>>>>,
      <<<<"g","i","t","p","y","t","h","o","n">>,
        <<<<"g","i","t">>>>>>,
      <<<<"p","y","t","h","o","n","-","d","o","t","e","n","v">>,
        <<<<"d","o","t","e","n","v">>>>>>,
      <<<<"f","a","s","t","a","p","i">>,
        <<<<"f","a","s","t","a","p","i">>>>>>,
      <<<<"u","v","i","c","o","r","n">>,
        <<<<"u","v","i","c","o","r","n">>>>>>,
      <<<<"u","v","l","o","o","p">>,
        <<<<"u","v","l","o","o","p">>>>>>,
      <<<<"s","t","a","r","l","e","t","t","e">>,
        <<<<"s","t","a","r","l","e","t","t","e">>>>>>,
      <<<<"h","t","t","p","x">>,
        <<<<"h","t","t","p","x">>>>>>,
      <<<<"p","y","t","h","o","n","-","m","u","l","t","i","p","a","r","t">>,
        <<<<"m","u","l","t","i","p","a","r","t">>>>>>,
      <<<<"p","y","j","w","t">>,
        <<<<"j","w","t">>>>>>,
      <<<<"p","y","t","h","o","n","-","j","o","s","e">>,
        <<<<"j","o","s","e">>>>>>,
      <<<<"t","y","p","i","n","g","-","e","x","t","e","n","s","i","o","n","s">>,
        <<<<"t","y","p","i","n","g","_","e","x","t","e","n","s","i","o","n","s">>>>>>,
      <<<<"d","v","c">>,
        <<<<"d","v","c">>>>>>,
      <<<<"g","d","o","w","n">>,
        <<<<"g","d","o","w","n">>>>>>>>

IGNORE_PACKAGES ==
    {<<"p","y","t","o","m","l","c","l","e","a","n","e","r">>,
     <<"p","y","t","e","s","t">>,
     <<"t","o","x">>,
     <<"b","l","a","c","k">>,
     <<"r","u","f","f">>,
     <<"m","y","p","y">>,
     <<"p","y","l","i","n","t">>,
     <<"f","l","a","k","e","8">>,
     <<"i","s","o","r","t">>,
     <<"p","o","e","t","r","y">>,
     <<"s","e","t","u","p","t","o","o","l","s">>,
     <<"w","h","e","e","l">>,
     <<"b","u","i","l","d">>,
     <<"t","w","i","n","e">>,
     <<"p","r","e","-","c","o","m","m","i","t">>,
     <<"v","i","r","t","u","a","l","e","n","v">>,
     <<"p","i","p">>}

EXCLUDE_DIRS ==
    {"venv", ".venv", ".git", "__pycache__", "dist", "build", ".mypy_cache", "node_modules", "htmlcov"}

BaseKeys == {BASE_MAPPING[i][1] : i \in 1..Len(BASE_MAPPING)}

\* BASE_MAPPING[key]
BaseGet(key) == BASE_MAPPING[CHOOSE i \in 1..Len(BASE_MAPPING) : BASE_MAPPING[i][1] = key][2]

(***************************************************************************)
(* The strings of the inputs the model explores                            *)
(***************************************************************************)
k_dependencies == <<"d","e","p","e","n","d","e","n","c","i","e","s">>

k_ignore == <<"i","g","n","o","r","e">>

s_python == <<"p","y","t","h","o","n">>

s_requests == <<"r","e","q","u","e","s","t","s">>

s_Requests == <<"R","e","q","u","e","s","t","s">>

s_numpy == <<"n","u","m","p","y">>

s_NumPy == <<"N","u","m","P","y">>

s_pillow == <<"p","i","l","l","o","w">>

s_Pillow == <<"P","i","l","l","o","w">>

s_PIL == <<"P","I","L">>

s_Image == <<"I","m","a","g","e">>

s_pytest == <<"p","y","t","e","s","t">>

s_opencv_python == <<"o","p","e","n","c","v","-","p","y","t","h","o","n">>

s_opencv_us_python == <<"o","p","e","n","c","v","_","p","y","t","h","o","n">>

s_cv2 == <<"c","v","2">>

s_zzz == <<"z","z","z">>

s_gdown == <<"g","d","o","w","n">>

s_my_pkg == <<"m","y","-","p","k","g">>

s_os_path == <<"o","s",".","p","a","t","h">>

s_numpy_spec == <<"n","u","m","p","y",">","=","1",".","0">>

s_python_spec == <<"p","y","t","h","o","n",">","=","3",".","8">>

s_caret == <<"^","3",".","9">>

s_star == <<"*">>

s_blank == <<" "," ">>

s_numpy_line == <<" ","n","u","m","p","y"," ">>

s_note == <<"#"," ","p","i","n","n","e","d">>

t_gdown_cmd == <<"p","i","p"," ","g","d","o","w","n"," ","x">>

t_no_word == <<"x","g","d","o","w","n","_","y">>

s_numpy_ext == <<"n","u","m","p","y","_","e","x","t">>

\* "requests[socks]>=2"
s_requests_extra ==
    <<"r","e","q","u","e","s","t","s","[","s","o","c","k","s","]",">","=","2">>

s_pil == <<"p","i","l">>

(***************************************************************************)
(* The manifest document                                                   *)
(*                                                                         *)
(* A manifest file is [exists, eol, lines]: eol is the line terminator its *)
(* bytes use and lines are its logical lines in file order.  A line is     *)
(* [kind, tbl, key, items]: a "comment", a table "header" naming tbl, or   *)
(* an entry under key whose value is a "string" (items holds the one       *)
(* string) or an "array" of strings (items holds its elements).            *)
(***************************************************************************)
Comment(text)     == [kind |-> "comment", tbl |-> "", key |-> <<>>, items |-> <<text>>]

Header(tbl)       == [kind |-> "header", tbl |-> tbl, key |-> <<>>, items |-> <<>>]

StringEntry(k, s) == [kind |-> "string", tbl |-> "", key |-> k, items |-> <<s>>]

ArrayEntry(k, xs) == [kind |-> "array", tbl |-> "", key |-> k, items |-> xs]

MissingFile == [exists |-> FALSE, eol |-> "LF", lines |-> <<>>]

T_project == "project"

T_poetry_deps == "tool.poetry.dependencies"

T_config == "tool.pytomlcleaner"

T_custom == "tool.pytomlcleaner.custom_mappings"

\* open(path, "r", encoding="utf-8").read(): universal newlines, every line
\* terminator of the file reads as "\n", so the text is the lines alone
ReadText(file) == file.lines

\* open(path, "w", encoding="utf-8").write(text): every "\n" is written as
\* os.linesep
WriteText(text, sep) == [exists |-> TRUE, eol |-> sep, lines |-> text]

\* the parsed document: the lines grouped into sections, one per table
\* header, after a first section for the lines before any header; comments
\* stay in the section they stand in
Parse(text) ==
    LET F[i \in 0..Len(text)] ==
            IF i = 0 THEN <<[tbl |-> "", head |-> <<>>, body |-> <<>>]>>
            ELSE IF text[i].kind = "header"
                 THEN Append(F[i-1], [tbl |-> text[i].tbl, head |-> <<text[i]>>, body |-> <<>>])
                 ELSE [F[i-1] EXCEPT ![Len(F[i-1])].body = Append(@, text[i])]
    IN  F[Len(text)]

\* Mutation: the document is dumped from its plain values, comments lost
RECURSIVE PlainDump(_)
PlainDump(doc) ==
    IF doc = <<>> THEN <<>>
    ELSE Head(doc).head
         \o SelectSeq(Head(doc).body, LAMBDA line : line.kind # "comment")
         \o PlainDump(Tail(doc))

\* doc.as_string(): every section's header and body lines, in order
RECURSIVE as_string(_)
as_string(doc) ==
    IF doc = <<>> THEN <<>>
    ELSE Head(doc).head \o Head(doc).body \o as_string(Tail(doc))

IsEntry(line) == line.kind \in {"string", "array"}

\* "tbl" in doc
HasTable(doc, tbl) == \E s \in 1..Len(doc) : doc[s].head # <<>> /\ doc[s].tbl = tbl

TableIndex(doc, tbl) == CHOOSE s \in 1..Len(doc) : doc[s].head # <<>> /\ doc[s].tbl = tbl

\* the entries of a section's body, comments left out, in document order
RECURSIVE Entries(_)
Entries(body) ==
    IF body = <<>> THEN <<>>
    ELSE (IF IsEntry(Head(body)) THEN <<Head(body)>> ELSE <<>>) \o Entries(Tail(body))

\* data.get(tbl, {}) as the list of its entries
TableEntries(doc, tbl) ==
    IF HasTable(doc, tbl) THEN Entries(doc[TableIndex(doc, tbl)].body) ELSE <<>>

HasKey(entries, k) == \E i \in 1..Len(entries) : entries[i].key = k

KeyIndex(entries, k) == CHOOSE i \in 1..Len(entries) : entries[i].key = k

\* data.get(tbl, {}).get(k, default) for an array-valued key
GetItems(doc, tbl, k, default) ==
    LET entries == TableEntries(doc, tbl)
    IN  IF HasKey(entries, k) THEN entries[KeyIndex(entries, k)].items ELSE default

(***************************************************************************)
(* AnalysisConfig: [tool.pytomlcleaner] of <root>/pyproject.toml           *)
(***************************************************************************)
EmptyConfig == [ignore |-> <<>>, custom_mappings |-> <<>>]

\* DependencyAnalyzer._load_config: data.get("tool", {}).get("pytomlcleaner",
\* {}); `ignore` is its array and custom_mappings the entries of its
\* custom_mappings table, each a string or an array of strings
_load_config(file) ==
    IF ~file.exists THEN EmptyConfig
    ELSE LET data == Parse(ReadText(file))
         IN  [ignore          |-> GetItems(data, T_config, k_ignore, <<>>),
              custom_mappings |-> TableEntries(data, T_custom)]

CustomKeys(config) ==
    {config.custom_mappings[i].key : i \in 1..Len(config.custom_mappings)}

\* custom[normalized]
CustomGet(config, k) ==
    config.custom_mappings[CHOOSE i \in 1..Len(config.custom_mappings) :
                               config.custom_mappings[i].key = k]

\* custom_imports if isinstance(custom_imports, list) else [custom_imports]
AsList(entry) == IF entry.kind = "array" THEN entry.items ELSE <<entry.items[1]>>

(***************************************************************************)
(* Installed-package metadata: importlib.metadata.distribution(name)       *)
(*                                                                         *)
(* The environment is a sequence of <<distribution name, record>>; a       *)
(* record is [status, text]: "text" with the lines of top_level.txt,       *)
(* "notext" when read_text gives None, "error" when reading raises.        *)
(* A name with no record raises PackageNotFoundError.                      *)
(***************************************************************************)
NotInstalled == [status |-> "missing", text |-> <<>>]

\* importlib.metadata compares names lower-cased with "-" and "." as "_"
DistKey(name) == Lower(Replace(Replace(name, "-", <<"_">>), ".", <<"_">>))

distribution(env, name) ==
    IF \E i \in 1..Len(env) : DistKey(env[i][1]) = DistKey(name)
    THEN env[CHOOSE i \in 1..Len(env) : DistKey(env[i][1]) = DistKey(name)][2]
    ELSE NotInstalled

\* [line.strip() for line in text.splitlines() if line.strip()]
RECURSIVE StrippedLines(_)
StrippedLines(text) ==
    IF text = <<>> THEN <<>>
    ELSE (IF Strip(Head(text)) = <<>> THEN <<>> ELSE <<Strip(Head(text))>>)
         \o StrippedLines(Tail(text))

(***************************************************************************)
(* Import-name resolver                                                    *)
(***************************************************************************)
\* package_name.lower().replace("_", "-")
Normalized(package_name) == Replace(Lower(package_name), "_", <<"-">>)

\* Priority 4: [package_name.replace("-", "_")]
Fallback(package_name) == <<Replace(package_name, "-", <<"_">>)>>

\* Priority 3: the top-level names of the installed distribution, when
\* top_level.txt is a non-empty string; otherwise fall through
MetadataHit(env, package_name) ==
    LET dist == distribution(env, package_name)
    IN  dist.status = "text" /\ dist.text # <<>>

\* Mutation: the built-in table is consulted before the custom mappings
FirstBuiltinResolver(config, env, package_name) ==
    LET normalized == Normalized(package_name)
    IN  IF normalized \in BaseKeys THEN BaseGet(normalized)
        ELSE IF normalized \in CustomKeys(config)
             THEN AsList(CustomGet(config, normalized))
        ELSE IF MetadataHit(env, package_name)
             THEN StrippedLines(distribution(env, package_name).text)
        ELSE Fallback(package_name)

\* Mutation: the built-in table is never consulted
SkipBuiltinResolver(config, env, package_name) ==
    LET normalized == Normalized(package_name)
    IN  IF normalized \in CustomKeys(config)
        THEN AsList(CustomGet(config, normalized))
        ELSE IF MetadataHit(env, package_name)
             THEN StrippedLines(distribution(env, package_name).text)
        ELSE Fallback(package_name)

\* DependencyAnalyzer.get_import_names_for_package; priority order: custom
\* mappings, BASE_MAPPING, installed package metadata, standard normalization
get_import_names_for_package(config, env, package_name) ==
    LET normalized == Normalized(package_name)
    IN  IF normalized \in CustomKeys(config)
        THEN AsList(CustomGet(config, normalized))
        ELSE IF normalized \in BaseKeys THEN BaseGet(normalized)
        ELSE IF MetadataHit(env, package_name)
             THEN StrippedLines(distribution(env, package_name).text)
        ELSE Fallback(package_name)

(***************************************************************************)
(* Source scanner                                                          *)
(*                                                                         *)
(* A file of the tree is [ext, dirs, name, ok, stmts, comments, text]:     *)
(* dirs are the directory names between the scan root and the file, name   *)
(* is the file name without its extension; ok is FALSE                     *)
(* when reading, decoding or parsing the file raises.  A ".py" file is its *)
(* import statements, [type, module, names] ("import n1, n2" has an empty  *)
(* module; "from m import n1, n2" has module m, empty for "from . import"),*)
(* and the dotted names that follow "import"/"from" in its comments and    *)
(* strings.  Any other file is its text.                                   *)
(***************************************************************************)
\* the file name without its extension, when nothing else is said
f_main == <<"m","a","i","n">>

PyFile(dirs, ok, stmts, comments) ==
    [ext |-> ".py", dirs |-> dirs, name |-> f_main, ok |-> ok, stmts |-> stmts,
     comments |-> comments, text |-> <<>>]

TextFile(ext, dirs, ok, text) ==
    [ext |-> ext, dirs |-> dirs, name |-> f_main, ok |-> ok, stmts |-> <<>>,
     comments |-> <<>>, text |-> text]

\* the same file under another name
Named(file, name) == [file EXCEPT !.name = name]

Import(names) == [type |-> "import", module |-> <<>>, names |-> names]

ImportFrom(module, names) == [type |-> "from", module |-> module, names |-> names]

\* any(excluded in py_file.parts for excluded in EXCLUDE_DIRS): the parts of
\* the path rglob yields are those of the root followed by the directories
\* below it (the file name itself matches no excluded name)
Excluded(root_parts, file) ==
    \E part \in Range(root_parts \o file.dirs) : part \in EXCLUDE_DIRS

\* for part in name.split("."): if part: found_imports.add(part.lower())
PartsLower(dotted) == {Lower(part) : part \in Range(SplitDots(dotted))}

\* the names the ast walk adds for one Import / ImportFrom node
AstNames(stmt) ==
    IF stmt.type = "import"
    THEN UNION {PartsLower(n) : n \in Range(stmt.names)}
    ELSE PartsLower(stmt.module)
         \cup {Lower(n) : n \in {m \in Range(stmt.names) : m # <<"*">>}}

\* re.findall(r"(?:import|from)\s+([a-zA-Z0-9_.]+)", content) on the text of
\* one statement: the first name after "import" and the module after "from"
RegexNames(stmt) ==
    LET first == IF stmt.names # <<>> /\ stmt.names[1] # <<"*">>
                 THEN PartsLower(stmt.names[1]) ELSE {}
    IN  IF stmt.type = "import" THEN first ELSE PartsLower(stmt.module) \cup first

\* what one .py file adds to found_imports; nothing when it raises
FileImports(file) ==
    IF ~file.ok THEN {}
    ELSE UNION {AstNames(file.stmts[i]) \cup RegexNames(file.stmts[i]) :
                   i \in 1..Len(file.stmts)}
         \cup UNION {PartsLower(c) : c \in Range(file.comments)}

\* Mutation: the scan replaces found_imports instead of adding to it
OverwritingPythonScan(found_imports, root_parts, files) ==
    UNION {FileImports(f) : f \in {g \in files : g.ext = ".py" /\ ~Excluded(root_parts, g)}}

\* Mutation: a file that raises ends the walk; no file after it is read
\* (here: it is met first)
AbortingPythonScan(found_imports, root_parts, files) ==
    IF \E g \in files : g.ext = ".py" /\ ~Excluded(root_parts, g) /\ ~g.ok
    THEN found_imports
    ELSE found_imports \cup
         UNION {FileImports(f) : f \in {g \in files : g.ext = ".py" /\ ~Excluded(root_parts, g)}}

\* DependencyAnalyzer.scan_python_files
scan_python_files(found_imports, root_parts, files) ==
    found_imports \cup
    UNION {FileImports(f) : f \in {g \in files : g.ext = ".py" /\ ~Excluded(root_parts, g)}}

extensions == {".sh", ".yml", ".yaml", "Dockerfile", ".txt"}

IsWord(c) == c \in Range(LowerCase) \cup Range(UpperCase) \cup Digits \cup {"_"}

\* \b between text[p] and text[p+1] (p = 0 and p = Len(text) are the ends)
Boundary(text, p) ==
    (p >= 1 /\ IsWord(text[p])) # (p < Len(text) /\ IsWord(text[p + 1]))

\* re.search(rf"\b{re.escape(pat)}\b", text)
WordSearch(pat, text) ==
    \E i \in 1..(Len(text) - Len(pat) + 1) :
        /\ SubSeq(text, i, i + Len(pat) - 1) = pat
        /\ Boundary(text, i - 1)
        /\ Boundary(text, i + Len(pat) - 1)

\* what one script / YAML / Dockerfile / text file adds; nothing when it raises
FileTools(file) ==
    IF ~file.ok THEN {}
    ELSE {Lower(k) : k \in {pkg_name \in BaseKeys :
                               WordSearch(Replace(pkg_name, "_", <<"-">>), file.text)}}

\* Mutation: the scan replaces found_imports instead of adding to it
OverwritingNonPythonScan(found_imports, root_parts, files) ==
    UNION {FileTools(f) : f \in {g \in files : g.ext \in extensions /\ ~Excluded(root_parts, g)}}

\* DependencyAnalyzer.scan_non_python_files
scan_non_python_files(found_imports, root_parts, files) ==
    found_imports \cup
    UNION {FileTools(f) : f \in {g \in files : g.ext \in extensions /\ ~Excluded(root_parts, g)}}

(***************************************************************************)
(* Manifest reader                                                         *)
(***************************************************************************)
\* dep.split(";")[0].split("<")[0].split(">")[0].split("=")[0]
\*    .split("~")[0].split("!")[0].strip()
BareName(dep) ==
    Strip(SplitFirst(SplitFirst(SplitFirst(SplitFirst(SplitFirst(SplitFirst(
        dep, ";"), "<"), ">"), "="), "~"), "!"))

\* get_dependencies: the empty set when the file is missing
get_dependencies(file) ==
    IF ~file.exists THEN {}
    ELSE LET data        == Parse(ReadText(file))
             deps_list   == GetItems(data, T_project, k_dependencies, <<>>)
             poetry_deps == TableEntries(data, T_poetry_deps)
         IN  {Lower(BareName(deps_list[i])) : i \in 1..Len(deps_list)}
             \cup {Lower(poetry_deps[i].key) :
                      i \in {j \in 1..Len(poetry_deps) : Lower(poetry_deps[j].key) # s_python}}

(***************************************************************************)
(* Usage classifier                                                        *)
(***************************************************************************)
\* Mutation: the user ignore-list is not consulted
NeverUserIgnored(config, dep) == FALSE

\* dep_lower in user_ignores, user_ignores = set(config.get("ignore", []))
UserIgnored(config, dep) == Lower(dep) \in Range(config.ignore)

\* Mutation: the protected set is not consulted
NeverProtected(dep) == FALSE

\* dep_lower in IGNORE_PACKAGES
Protected(dep) == Lower(dep) \in IGNORE_PACKAGES

\* the exact pass: import_name.lower() in self.found_imports
ExactMatch(possible_imports, found_imports) ==
    \E i \in 1..Len(possible_imports) : Lower(possible_imports[i]) \in found_imports

\* Mutation: the strict classifier, without the similarity pass
NoSimilarMatch(dep, possible_imports, found_imports) == FALSE

\* the similarity pass: the package name, then each possible import name,
\* against every found import
SimilarMatch(dep, possible_imports, found_imports) ==
    \E found_import \in found_imports :
        \/ is_similar(dep, found_import)
        \/ \E i \in 1..Len(possible_imports) : is_similar(possible_imports[i], found_import)

\* DependencyAnalyzer.identify_unused, as the set of its output list
identify_unused(config, env, found_imports, declared_deps) ==
    {dep \in declared_deps :
        /\ ~UserIgnored(config, dep)
        /\ ~Protected(dep)
        /\ LET possible_imports == get_import_names_for_package(config, env, dep)
           IN  /\ ~ExactMatch(possible_imports, found_imports)
               /\ ~SimilarMatch(dep, possible_imports, found_imports)}

(***************************************************************************)
(* remove_unused_dependencies                                              *)
(***************************************************************************)
\* Mutation: the bare name is compared without .lower()
RECURSIVE CaseSensitiveRemove(_, _, _)
CaseSensitiveRemove(project_deps, i, unused_packages) ==
    IF i = 0 THEN project_deps
    ELSE CaseSensitiveRemove(
             IF BareName(project_deps[i]) \in unused_packages
             THEN SubSeq(project_deps, 1, i - 1) \o SubSeq(project_deps, i + 1, Len(project_deps))
             ELSE project_deps,
             i - 1, unused_packages)

\* for i in range(len(project_deps) - 1, -1, -1): delete item i when its
\* bare lower-case name is in unused_packages
RECURSIVE RemoveFromArray(_, _, _)
RemoveFromArray(project_deps, i, unused_packages) ==
    IF i = 0 THEN project_deps
    ELSE RemoveFromArray(
             IF Lower(BareName(project_deps[i])) \in unused_packages
             THEN SubSeq(project_deps, 1, i - 1) \o SubSeq(project_deps, i + 1, Len(project_deps))
             ELSE project_deps,
             i - 1, unused_packages)

\* 1. PEP 621 project.dependencies, when it is an array
CleanFlatList(body, unused_packages) ==
    [j \in 1..Len(body) |->
        IF body[j].kind = "array" /\ body[j].key = k_dependencies
        THEN [body[j] EXCEPT !.items = RemoveFromArray(@, Len(@), unused_packages)]
        ELSE body[j]]

\* Mutation: the "python" key is removed like any other
RemovePythonToo(pkg, unused_packages) == Lower(pkg) \in unused_packages

\* 2. tool.poetry.dependencies: keys_to_remove are the keys whose lower-case
\* name is in unused_packages and is not "python"
KeyToRemove(pkg, unused_packages) ==
    Lower(pkg) \in unused_packages /\ Lower(pkg) # s_python

RECURSIVE CleanTable(_, _)
CleanTable(body, unused_packages) ==
    IF body = <<>> THEN <<>>
    ELSE (IF IsEntry(Head(body)) /\ KeyToRemove(Head(body).key, unused_packages)
          THEN <<>> ELSE <<Head(body)>>)
         \o CleanTable(Tail(body), unused_packages)

\* the document after both removals
CleanDocument(doc, unused_packages) ==
    [s \in 1..Len(doc) |->
        IF doc[s].head # <<>> /\ doc[s].tbl = T_project
        THEN [doc[s] EXCEPT !.body = CleanFlatList(@, unused_packages)]
        ELSE IF doc[s].head # <<>> /\ doc[s].tbl = T_poetry_deps
        THEN [doc[s] EXCEPT !.body = CleanTable(@, unused_packages)]
        ELSE doc[s]]

(***************************************************************************)
(* Package discovery: is_local_module and discover_used_packages           *)
(***************************************************************************)
\* a str as the string a path part is written with
RECURSIVE Str(_)
Str(s) == IF s = <<>> THEN "" ELSE s[1] \o Str(Tail(s))

f_init == <<"_","_","i","n","i","t","_","_">>

\* is_local_module(import_name, base_dir): a directory of the root holding
\* __init__.py, or a .py file of the root, named like the first part of
\* import_name (the file system compares names exactly)
is_local_module(import_name, files) ==
    LET top_level_name == SplitFirst(import_name, ".")
    IN  \/ \E f \in files : /\ f.dirs = <<Str(top_level_name)>>
                            /\ f.ext = ".py"
                            /\ f.name = f_init
        \/ \E f \in files : /\ f.dirs = <<>>
                            /\ f.ext = ".py"
                            /\ f.name = top_level_name

\* the characters of names in code-point order
CodePoints ==
    <<"-", ".", "0","1","2","3","4","5","6","7","8","9">> \o UpperCase \o <<"_">> \o LowerCase

Ord(c) == CHOOSE i \in 1..Len(CodePoints) : CodePoints[i] = c

\* a <= b for two str, as sorted() compares them
RECURSIVE StrLessEq(_, _)
StrLessEq(a, b) ==
    IF a = <<>> THEN TRUE
    ELSE IF b = <<>> THEN FALSE
    ELSE IF a[1] = b[1] THEN StrLessEq(Tail(a), Tail(b))
    ELSE Ord(a[1]) < Ord(b[1])

\* sorted(list(names))
RECURSIVE sorted(_)
sorted(names) ==
    IF names = {} THEN <<>>
    ELSE LET least == CHOOSE x \in names : \A y \in names : StrLessEq(x, y)
         IN  <<least>> \o sorted(names \ {least})

\* dist.metadata["Name"] of the distribution found under name
MetadataName(env, name) ==
    env[CHOOSE i \in 1..Len(env) : DistKey(env[i][1]) = DistKey(name)][1]

IsInstalled(env, name) == \E i \in 1..Len(env) : DistKey(env[i][1]) = DistKey(name)

\* the reverse lookup in BASE_MAPPING: the first key, in table order, whose
\* import names, lower-cased, hold imp
ReverseKeys(imp) ==
    {i \in 1..Len(BASE_MAPPING) : imp \in {Lower(n) : n \in Range(BASE_MAPPING[i][2])}}

\* the package one import name is mapped back to
PackageOf(env, imp) ==
    IF ReverseKeys(imp) # {}
    THEN BASE_MAPPING[CHOOSE i \in ReverseKeys(imp) : \A j \in ReverseKeys(imp) : i <= j][1]
    ELSE IF IsInstalled(env, imp) THEN Lower(MetadataName(env, imp))
    ELSE IF IsInstalled(env, Replace(imp, "_", <<"-">>))
         THEN Lower(MetadataName(env, Replace(imp, "_", <<"-">>)))
    ELSE imp

\* the import names that pass the three filters
UsedImports(stdlib, found_imports, files) ==
    {imp \in found_imports :
        /\ imp \notin stdlib
        /\ ~is_local_module(imp, files)
        /\ imp \notin IGNORE_PACKAGES}

\* Mutation: the protected names are not filtered out
UnfilteredDiscovery(env, stdlib, root_parts, files) ==
    LET found_imports ==
            scan_non_python_files(scan_python_files({}, root_parts, files), root_parts, files)
    IN  sorted({PackageOf(env, imp) :
                   imp \in {i \in found_imports : i \notin stdlib /\ ~is_local_module(i, files)}})

\* discover_used_packages(code_root)
discover_used_packages(env, stdlib, root_parts, files) ==
    LET found_imports ==
            scan_non_python_files(scan_python_files({}, root_parts, files), root_parts, files)
    IN  sorted({PackageOf(env, imp) : imp \in UsedImports(stdlib, found_imports, files)})

(***************************************************************************)
(* Manifest generation: populate_pyproject_toml                            *)
(***************************************************************************)
k_name == <<"n","a","m","e">>

k_version == <<"v","e","r","s","i","o","n">>

k_description == <<"d","e","s","c","r","i","p","t","i","o","n">>

s_first_version == <<"0",".","1",".","0">>

s_my_project == <<"m","y","-","p","r","o","j","e","c","t">>

\* the directory names root paths are made of, as str
DirChars ==
    ("home" :> <<"h","o","m","e">>) @@ ("build" :> <<"b","u","i","l","d">>)
    @@ ("proj" :> <<"p","r","o","j">>)

\* Path(code_root).name or "my-project": "." has the empty name
ProjectName(root_parts) ==
    IF root_parts = <<>> THEN s_my_project ELSE DirChars[root_parts[Len(root_parts)]]

\* existing_deps: project.dependencies, or when that is missing or empty
\* the tool.poetry.dependencies table
HasDependencies(doc) ==
    \/ GetItems(doc, T_project, k_dependencies, <<>>) # <<>>
    \/ TableEntries(doc, T_poetry_deps) # <<>>

\* if "project" not in doc: doc["project"] = tomlkit.table()
EnsureTable(doc, tbl) ==
    IF HasTable(doc, tbl) THEN doc
    ELSE Append(doc, [tbl |-> tbl, head |-> <<Header(tbl)>>, body |-> <<>>])

LineIndex(body, k) == CHOOSE i \in 1..Len(body) : IsEntry(body[i]) /\ body[i].key = k

\* table[key] = value: the entry under the key is replaced where it stands,
\* a new key is added after the last line of the table
SetKey(body, entry) ==
    IF HasKey(Entries(body), entry.key)
    THEN [body EXCEPT ![LineIndex(body, entry.key)] = entry]
    ELSE Append(body, entry)

\* if key not in project_section: project_section[key] = value
SetDefault(body, entry) ==
    IF HasKey(Entries(body), entry.key) THEN body ELSE Append(body, entry)

\* Mutation: the discovered packages are added to the list that is there
ExtendingPopulate(doc, discovered_packages, root_parts) ==
    LET with_project == EnsureTable(doc, T_project)
        p            == TableIndex(with_project, T_project)
        earlier      == GetItems(doc, T_project, k_dependencies, <<>>)
    IN  [with_project EXCEPT ![p].body =
            SetKey(SetDefault(SetDefault(SetDefault(@,
                      StringEntry(k_name, ProjectName(root_parts))),
                      StringEntry(k_version, s_first_version)),
                      StringEntry(k_description, <<>>)),
                   ArrayEntry(k_dependencies, earlier \o discovered_packages))]

\* the document populate_pyproject_toml writes: [project] with name,
\* version and description when they are missing, and the discovered
\* packages as its dependencies
PopulatedDocument(doc, discovered_packages, root_parts) ==
    LET with_project == EnsureTable(doc, T_project)
        p            == TableIndex(with_project, T_project)
    IN  [with_project EXCEPT ![p].body =
            SetKey(SetDefault(SetDefault(SetDefault(@,
                      StringEntry(k_name, ProjectName(root_parts))),
                      StringEntry(k_version, s_first_version)),
                      StringEntry(k_description, <<>>)),
                   ArrayEntry(k_dependencies, discovered_packages))]

\* a line that is no TOML: tomlkit.load raises on a file that holds one
Garbage == [kind |-> "garbage", tbl |-> "", key |-> <<>>, items |-> <<>>]

Malformed(file) == \E i \in 1..Len(file.lines) : file.lines[i].kind = "garbage"

\* Mutation: the manifest is populated whether or not it has dependencies
AlwaysPopulate(file, force, discovered_packages) ==
    discovered_packages # <<>>

\* whether populate_pyproject_toml goes on to write: something was
\* discovered, and the manifest is missing, or force is set, or it loads
\* and declares no dependency
WillPopulate(file, force, discovered_packages) ==
    /\ discovered_packages # <<>>
    /\ \/ ~file.exists
       \/ force
       \/ ~Malformed(file) /\ ~HasDependencies(Parse(ReadText(file)))

\* the text populate_pyproject_toml writes; the document is the one
\* loaded, or tomlkit.document() when the file is missing or does not load
PopulatedText(file, discovered_packages, root_parts) ==
    LET doc == IF file.exists /\ ~Malformed(file) THEN Parse(ReadText(file))
               ELSE Parse(<<>>)
    IN  as_string(PopulatedDocument(doc, discovered_packages, root_parts))

(***************************************************************************)
(* Bounds                                                                  *)
(***************************************************************************)
\* how many scan calls one analyzer receives
MaxScans == 2

\* how many times populate_pyproject_toml is called in one behaviour
MaxPopulates == 1

\* how many times remove_unused_dependencies is called on one manifest
MaxRemovals == 1

(***************************************************************************)
(* Inputs                                                                  *)
(***************************************************************************)
\* a manifest: a leading comment, then [project] with its dependency array,
\* [tool.poetry.dependencies] with its keys, [tool.pytomlcleaner] with the
\* ignore array and its custom_mappings table, each when given (deps and
\* ignore are sequences of zero or one array)
Manifest(deps, poetry, ignore, custom, eol) ==
    [exists |-> TRUE, eol |-> eol,
     lines |->
        <<Comment(s_note)>>
        \o (IF deps = <<>> THEN <<>>
            ELSE <<Header(T_project), ArrayEntry(k_dependencies, deps[1]), Comment(s_note)>>)
        \o (IF poetry = <<>> THEN <<>> ELSE <<Header(T_poetry_deps)>> \o poetry)
        \o (IF ignore = <<>> THEN <<>>
            ELSE <<Header(T_config), ArrayEntry(k_ignore, ignore[1])>>)
        \o (IF custom = <<>> THEN <<>> ELSE <<Header(T_custom)>> \o custom)]

DepLists ==
    {<<>>,
     <<<<s_requests, s_numpy_spec>>>>,
     <<<<s_Pillow>>>>,
     <<<<s_pytest>>>>,
     <<<<s_pytest, s_opencv_python, s_numpy>>>>,
     <<<<s_requests_extra>>>>}

PoetryTables ==
    {<<>>,
     <<StringEntry(s_python, s_caret), Comment(s_note), StringEntry(s_NumPy, s_star)>>}

\* <<ignore, custom_mappings>> of [tool.pytomlcleaner]
Configs ==
    {<<<<>>, <<>>>>,
     <<<<<<s_numpy, s_Requests>>>>, <<>>>>,
     <<<<<<>>>>, <<StringEntry(s_opencv_python, s_zzz)>>>>}

Manifests ==
    {Manifest(d, p, c[1], c[2], "LF") : d \in DepLists, p \in PoetryTables, c \in Configs}

\* the manifest at a path other than <root>/pyproject.toml
AltManifest ==
    Manifest(<<<<s_numpy, s_pytest>>>>, <<>>, <<<<s_numpy>>>>, <<>>, "LF")

Trees ==
    {{},
     {PyFile(<<>>, TRUE, <<Import(<<s_requests>>)>>, <<>>)},
     {PyFile(<<"pkg">>, TRUE, <<ImportFrom(s_PIL, <<s_Image>>)>>, <<>>),
      TextFile(".sh", <<"scripts">>, TRUE, t_gdown_cmd),
      TextFile(".txt", <<>>, TRUE, t_no_word)},
     {PyFile(<<>>, TRUE, <<Import(<<s_cv2, s_os_path>>)>>, <<s_numpy_ext>>),
      PyFile(<<"venv", "lib">>, TRUE, <<Import(<<s_numpy>>)>>, <<>>),
      PyFile(<<>>, FALSE, <<Import(<<s_requests>>)>>, <<>>),
      TextFile(".md", <<>>, TRUE, t_gdown_cmd),
      TextFile(".yml", <<>>, FALSE, t_gdown_cmd)}}

\* the parts of the root path given to the analyzer: ".", and a path
\* that runs through a directory named like an excluded one
RootPaths == {<<>>, <<"home", "build", "proj">>}

Installed(text) == [status |-> "text", text |-> text]

Envs ==
    {<<>>,
     <<<<s_numpy, Installed(<<s_numpy>>)>>,
       <<s_requests, [status |-> "notext", text |-> <<>>]>>>>}

ResolveConfigs ==
    Configs \cup
    {<<<<>>, <<ArrayEntry(s_numpy, <<>>), ArrayEntry(s_pillow, <<s_PIL, s_zzz>>)>>>>,
     <<<<>>, <<StringEntry(s_requests, s_zzz), ArrayEntry(s_my_pkg, <<s_zzz>>)>>>>}

ResolveEnvs ==
    Envs \cup
    {<<<<s_numpy, Installed(<<s_blank>>)>>,
       <<s_pillow, Installed(<<s_zzz>>)>>,
       <<s_my_pkg, [status |-> "error", text |-> <<>>]>>>>,
     <<<<s_my_pkg, Installed(<<s_blank, s_numpy_line, s_zzz>>)>>,
       <<s_requests, Installed(<<>>)>>>>}

ResolveNames ==
    {s_requests, s_numpy, s_NumPy, s_Pillow, s_opencv_python,
     s_opencv_us_python, s_my_pkg, s_pytest}

RemoveDepLists ==
    {<<>>,
     <<<<s_requests, s_numpy_spec>>>>,
     <<<<s_python_spec, s_NumPy, s_requests, s_numpy_spec>>>>,
     <<<<>>>>}

RemovePoetryTables ==
    PoetryTables \cup
    {<<StringEntry(s_requests, s_star), StringEntry(s_Requests, s_star), Comment(s_note)>>}

RemoveManifests ==
    {Manifest(d, p, <<<<s_numpy>>>>, <<>>, e) :
        d \in RemoveDepLists, p \in RemovePoetryTables, e \in {"LF", "CRLF"}}

UnusedSets ==
    {{}, {s_numpy}, {s_python}, {s_NumPy}, {s_python, s_numpy, s_requests}}

(***************************************************************************)
(* State                                                                   *)
(***************************************************************************)
VARIABLES
    files,           \* the manifest at each path: "root" is <root>/pyproject.toml
    pyproject_path,  \* the manifest path given to find_unused_dependencies
    tree,            \* the files below the scan root
    root_parts,      \* the parts of the root path given to the analyzer
    installed,       \* the installed-package metadata of the environment
    linesep,         \* os.linesep: "LF" or "CRLF"
    analyzer,        \* the DependencyAnalyzer: state, config, found_imports, scan_log
    resolved,        \* the last get_import_names_for_package call and its result
    result,          \* the outcome of find_unused_dependencies
    removal,         \* the last remove_unused_dependencies call
    removals,        \* how many remove_unused_dependencies calls were made
    call,            \* the last call of a pure helper and what it returned
    stdlib,          \* STDLIB: the standard-library names, empty without stdlib_list
    generation,      \* the last populate_pyproject_toml call
    cli              \* the command-line run: arguments, position, answer given

vars == <<files, pyproject_path, tree, root_parts, installed, linesep,
          analyzer, resolved, result, removal, removals, call, stdlib, generation, cli>>

Paths == {"root", "alt"}

NoAnalyzer ==
    [state |-> "none", config |-> EmptyConfig, found_imports |-> {}, scan_log |-> <<>>]

NotResolved == [called |-> FALSE, name |-> <<>>, imports |-> <<>>]

NoResult == [done |-> FALSE, declared |-> {}, unused |-> {}]

NoRemoval ==
    [called |-> FALSE, path |-> "root", unused_packages |-> {},
     before |-> MissingFile, status |-> "none"]

\* STDLIB when stdlib_list is importable: top-level and dotted module names
STDLIB_LIST == {<<"o","s">>, s_os_path, <<"j","s","o","n">>}

NoGeneration ==
    [calls |-> 0, path |-> "root", force |-> FALSE, discovered |-> <<>>,
     before |-> MissingFile, returned |-> FALSE, status |-> "none"]

NoCli ==
    [pc |-> "off", generate |-> FALSE, force |-> FALSE, fix |-> FALSE,
     answer |-> <<>>, unused |-> {}, before |-> MissingFile]

NoCall ==
    [fn |-> "none", a |-> <<>>, b |-> <<>>, num |-> 0, den |-> 1,
     similar |-> FALSE, reverse |-> FALSE, normal |-> <<>>, again |-> <<>>]

\* DependencyAnalyzer.__init__
NewAnalyzer(root_file) ==
    [state |-> "ready", config |-> _load_config(root_file),
     found_imports |-> {}, scan_log |-> <<>>]

(***************************************************************************)
(* The analysis: DependencyAnalyzer and find_unused_dependencies           *)
(***************************************************************************)
Init ==
    /\ \E m \in Manifests, alt \in {MissingFile, AltManifest} :
          files = [p \in Paths |-> IF p = "root" THEN m ELSE alt]
    /\ pyproject_path \in Paths
    /\ tree \in Trees
    /\ root_parts \in RootPaths
    /\ installed \in Envs
    /\ linesep = "LF"
    /\ analyzer = NoAnalyzer
    /\ resolved = NotResolved
    /\ result = NoResult
    /\ removal = NoRemoval
    /\ removals = 0
    /\ call = NoCall
    /\ stdlib = STDLIB_LIST
    /\ generation = NoGeneration
    /\ cli = NoCli

\* analyzer = DependencyAnalyzer(code_root)
Construct ==
    /\ analyzer.state = "none"
    /\ analyzer' = NewAnalyzer(files["root"])
    /\ UNCHANGED <<files, pyproject_path, tree, root_parts, installed, linesep,
                   resolved, result, removal, removals, call, stdlib, generation, cli>>

\* analyzer.scan_python_files()
ScanPython ==
    /\ analyzer.state = "ready"
    /\ ~result.done
    /\ Len(analyzer.scan_log) < MaxScans
    /\ analyzer' = [analyzer EXCEPT
                       !.found_imports = scan_python_files(@, root_parts, tree),
                       !.scan_log = Append(@, "py")]
    /\ UNCHANGED <<files, pyproject_path, tree, root_parts, installed, linesep,
                   resolved, result, removal, removals, call, stdlib, generation, cli>>

\* analyzer.scan_non_python_files()
ScanNonPython ==
    /\ analyzer.state = "ready"
    /\ ~result.done
    /\ Len(analyzer.scan_log) < MaxScans
    /\ analyzer' = [analyzer EXCEPT
                       !.found_imports = scan_non_python_files(@, root_parts, tree),
                       !.scan_log = Append(@, "aux")]
    /\ UNCHANGED <<files, pyproject_path, tree, root_parts, installed, linesep,
                   resolved, result, removal, removals, call, stdlib, generation, cli>>

BothScansRun == {"py", "aux"} \subseteq Range(analyzer.scan_log)

\* find_unused_dependencies after its two scans: read the declared
\* dependencies of pyproject_path and classify them
FindUnused ==
    /\ analyzer.state = "ready"
    /\ BothScansRun
    /\ ~result.done
    /\ LET project_dependencies == get_dependencies(files[pyproject_path])
       IN  result' = [done |-> TRUE,
                      declared |-> project_dependencies,
                      unused |-> identify_unused(analyzer.config, installed,
                                                 analyzer.found_imports,
                                                 project_dependencies)]
    /\ UNCHANGED <<files, pyproject_path, tree, root_parts, installed, linesep,
                   analyzer, resolved, removal, removals, call, stdlib, generation, cli>>

Next == Construct \/ ScanPython \/ ScanNonPython \/ FindUnused

Spec == Init /\ [][Next]_vars

(***************************************************************************)
(* The resolver alone: get_import_names_for_package on a constructed       *)
(* analyzer                                                                *)
(***************************************************************************)
InitResolve ==
    /\ \E c \in ResolveConfigs :
          /\ files = [p \in Paths |->
                        IF p = "root" THEN Manifest(<<>>, <<>>, c[1], c[2], "LF")
                        ELSE MissingFile]
          /\ analyzer = NewAnalyzer(Manifest(<<>>, <<>>, c[1], c[2], "LF"))
    /\ pyproject_path = "root"
    /\ tree = {}
    /\ root_parts = <<>>
    /\ installed \in ResolveEnvs
    /\ linesep = "LF"
    /\ resolved = NotResolved
    /\ result = NoResult
    /\ removal = NoRemoval
    /\ removals = 0
    /\ call = NoCall
    /\ stdlib = STDLIB_LIST
    /\ generation = NoGeneration
    /\ cli = NoCli

Resolve(package_name) ==
    /\ analyzer.state = "ready"
    /\ resolved' = [called |-> TRUE, name |-> package_name,
                    imports |-> get_import_names_for_package(
                                    analyzer.config, installed, package_name)]
    /\ UNCHANGED <<files, pyproject_path, tree, root_parts, installed, linesep,
                   analyzer, result, removal, removals, call, stdlib, generation, cli>>

NextResolve == \E package_name \in ResolveNames : Resolve(package_name)

SpecResolve == InitResolve /\ [][NextResolve]_vars

(***************************************************************************)
(* The mutation alone: remove_unused_dependencies(pyproject_path, unused)  *)
(***************************************************************************)
InitRemove ==
    /\ \E m \in RemoveManifests :
          files = [p \in Paths |-> IF p = "root" THEN m ELSE MissingFile]
    /\ pyproject_path = "root"
    /\ tree = {}
    /\ root_parts = <<>>
    /\ installed = <<>>
    /\ linesep \in {"LF", "CRLF"}
    /\ analyzer = NoAnalyzer
    /\ resolved = NotResolved
    /\ result = NoResult
    /\ removal = NoRemoval
    /\ removals = 0
    /\ call = NoCall
    /\ stdlib = STDLIB_LIST
    /\ generation = NoGeneration
    /\ cli = NoCli

\* the text remove_unused_dependencies writes back
CleanedText(file, unused_packages) ==
    as_string(CleanDocument(Parse(ReadText(file)), unused_packages))

Removal(path, unused_packages, status) ==
    [called |-> TRUE, path |-> path, unused_packages |-> unused_packages,
     before |-> files[path], status |-> status]

\* Mutation: a missing manifest is created empty
CreatingRemove(path, unused_packages) ==
    /\ ~files[path].exists
    /\ removal' = Removal(path, unused_packages, "not_found")
    /\ files' = [files EXCEPT ![path] = WriteText(<<>>, linesep)]

\* FileNotFoundError on reading: an error is printed, nothing is written
RemoveNotFound(path, unused_packages) ==
    /\ ~files[path].exists
    /\ removal' = Removal(path, unused_packages, "not_found")
    /\ UNCHANGED files

\* the document is edited and written back
RemoveWritten(path, unused_packages) ==
    /\ files[path].exists
    /\ files' = [files EXCEPT
                    ![path] = WriteText(CleanedText(files[path], unused_packages), linesep)]
    /\ removal' = Removal(path, unused_packages, "ok")

\* open(pyproject_path, "w") raises: the failure is printed, the file is as it was
RemoveOpenFails(path, unused_packages) ==
    /\ files[path].exists
    /\ removal' = Removal(path, unused_packages, "open_failed")
    /\ UNCHANGED files

\* doc.as_string() or f.write raises after open(pyproject_path, "w")
\* truncated the file: the file holds the part of the text that reached it
RemoveWriteFails(path, unused_packages) ==
    /\ files[path].exists
    /\ \E written \in 0..Len(CleanedText(files[path], unused_packages)) :
          files' = [files EXCEPT ![path] =
                       WriteText(SubSeq(CleanedText(files[path], unused_packages), 1, written),
                                 linesep)]
    /\ removal' = Removal(path, unused_packages, "write_failed")

RemoveUnused(path, unused_packages) ==
    /\ removals < MaxRemovals
    /\ removals' = removals + 1
    /\ \/ RemoveNotFound(path, unused_packages)
       \/ RemoveWritten(path, unused_packages)
       \/ RemoveOpenFails(path, unused_packages)
       \/ RemoveWriteFails(path, unused_packages)
    /\ UNCHANGED <<pyproject_path, tree, root_parts, installed, linesep,
                   analyzer, resolved, result, call, stdlib, generation, cli>>

NextRemove == \E path \in Paths, unused_packages \in UnusedSets :
                  RemoveUnused(path, unused_packages)

SpecRemove == InitRemove /\ [][NextRemove]_vars

(***************************************************************************)
(* The pure helpers: normalize_name and is_similar                         *)
(***************************************************************************)
n_ab == <<"a","b">>

n_bacb == <<"b","a","c","b">>

n_tide == <<"t","i","d","e">>

n_diet == <<"d","i","e","t">>

n_Py_YAML == <<"P","y","-","Y","A","M","L">>

n_py_yaml == <<"p","y","_","y","a","m","l">>

n_A_b_C == <<"A","_","b","-","C">>

n_separators == <<"_","-">>

\* the names the helpers are called with; <<>> is the empty string
Names ==
    {<<>>, n_ab, n_bacb, n_tide, n_diet, n_Py_YAML, n_py_yaml, n_A_b_C,
     n_separators, s_numpy, s_NumPy, s_pillow, s_pil, s_numpy_ext}

\* thresholds as <<numerator, denominator>>: 0.0, 0.5, the default, 1.0, 1.1
Thresholds == {<<0, 10>>, <<5, 10>>, <<ThresholdNum, ThresholdDen>>, <<10, 10>>, <<11, 10>>}

InitPure ==
    /\ files = [p \in Paths |-> MissingFile]
    /\ pyproject_path = "root"
    /\ tree = {}
    /\ root_parts = <<>>
    /\ installed = <<>>
    /\ linesep = "LF"
    /\ analyzer = NoAnalyzer
    /\ resolved = NotResolved
    /\ result = NoResult
    /\ removal = NoRemoval
    /\ removals = 0
    /\ call = NoCall
    /\ stdlib = STDLIB_LIST
    /\ generation = NoGeneration
    /\ cli = NoCli

\* one behaviour makes one call (the helpers keep no state):
\* is_similar(a, b, threshold) and the same call with the arguments swapped
IsSimilarCall(a, b, threshold) ==
    /\ call.fn = "none"
    /\ call' = [NoCall EXCEPT
                   !.fn = "is_similar", !.a = a, !.b = b,
                   !.num = threshold[1], !.den = threshold[2],
                   !.similar = is_similar_with(a, b, threshold[1], threshold[2]),
                   !.reverse = is_similar_with(b, a, threshold[1], threshold[2])]
    /\ UNCHANGED <<files, pyproject_path, tree, root_parts, installed, linesep,
                   analyzer, resolved, result, removal, removals,
                   stdlib, generation, cli>>

\* normalize_name(x) and normalize_name applied to its result
NormalizeCall(x) ==
    /\ call.fn = "none"
    /\ call' = [NoCall EXCEPT
                   !.fn = "normalize_name", !.a = x,
                   !.normal = normalize_name(x),
                   !.again = normalize_name(normalize_name(x))]
    /\ UNCHANGED <<files, pyproject_path, tree, root_parts, installed, linesep,
                   analyzer, resolved, result, removal, removals,
                   stdlib, generation, cli>>

NextPure ==
    \/ \E a \in Names, b \in Names, threshold \in Thresholds : IsSimilarCall(a, b, threshold)
    \/ \E x \in Names : NormalizeCall(x)

SpecPure == InitPure /\ [][NextPure]_vars

(***************************************************************************)
(* Analysis and removal on manifests that may be missing                   *)
(***************************************************************************)
InitMissing ==
    /\ \E m \in {MissingFile, AltManifest} :
          files = [p \in Paths |-> IF p = "root" THEN m ELSE MissingFile]
    /\ pyproject_path \in Paths
    /\ tree \in Trees
    /\ root_parts = <<>>
    /\ installed \in Envs
    /\ linesep = "LF"
    /\ analyzer = NoAnalyzer
    /\ resolved = NotResolved
    /\ result = NoResult
    /\ removal = NoRemoval
    /\ removals = 0
    /\ call = NoCall
    /\ stdlib = STDLIB_LIST
    /\ generation = NoGeneration
    /\ cli = NoCli

NextMissing == Next \/ NextRemove

SpecMissing == InitMissing /\ [][NextMissing]_vars

(***************************************************************************)
(* Manifest generation: discover_used_packages, populate_pyproject_toml    *)
(***************************************************************************)
s_bs4 == <<"b","s","4">>

s_BeautifulSoup == <<"B","e","a","u","t","i","f","u","l","S","o","u","p">>

s_beautifulsoup4 == <<"b","e","a","u","t","i","f","u","l","s","o","u","p","4">>

s_os == <<"o","s">>

s_json == <<"j","s","o","n">>

s_MyLib == <<"M","y","L","i","b">>

s_helpers == <<"h","e","l","p","e","r","s">>

s_mypkg == <<"m","y","p","k","g">>

s_nspkg == <<"n","s","p","k","g">>

s_pre_commit == <<"p","r","e","_","c","o","m","m","i","t">>

s_Pre_Commit == <<"P","r","e","-","C","o","m","m","i","t">>

s_existing_project ==
    <<"e","x","i","s","t","i","n","g","-","p","r","o","j","e","c","t">>

\* source trees for discovery: the two of the generation tests' shape, and
\* one with standard-library imports, a protected tool, and local modules
\* (a root module, a root module with capitals, a package with __init__.py,
\* a directory without one)
GenTrees ==
    {{},
     {PyFile(<<>>, TRUE, <<Import(<<s_requests>>),
                           ImportFrom(s_bs4, <<s_BeautifulSoup>>)>>, <<>>)},
     {PyFile(<<>>, TRUE, <<Import(<<s_os, s_json, s_requests>>),
                           Import(<<s_pytest, s_pre_commit>>),
                           Import(<<s_helpers, s_MyLib, s_mypkg, s_nspkg>>)>>, <<>>),
      Named(PyFile(<<>>, TRUE, <<>>, <<>>), s_helpers),
      Named(PyFile(<<>>, TRUE, <<>>, <<>>), s_MyLib),
      Named(PyFile(<<"mypkg">>, TRUE, <<>>, <<>>), f_init),
      PyFile(<<"nspkg">>, TRUE, <<>>, <<>>),
      TextFile(".sh", <<"scripts">>, TRUE, t_gdown_cmd)}}

GenEnvs ==
    {<<>>,
     <<<<s_Requests, Installed(<<s_requests>>)>>,
       <<s_Pre_Commit, Installed(<<s_pre_commit>>)>>>>}

\* manifests generation may find: none, one that does not load, one with
\* no dependency key, with an empty list, with a list, with a [project]
\* table that has its own name and a list, with a nested table only
GenManifests ==
    {MissingFile,
     WriteText(<<Comment(s_note), Garbage>>, "LF"),
     Manifest(<<>>, <<>>, <<>>, <<>>, "LF"),
     Manifest(<<<<>>>>, <<>>, <<>>, <<>>, "LF"),
     Manifest(<<<<s_numpy>>>>, <<>>, <<<<s_numpy>>>>, <<>>, "LF"),
     WriteText(<<Header(T_project), StringEntry(k_name, s_existing_project),
                 ArrayEntry(k_dependencies, <<s_numpy>>), Comment(s_note)>>, "LF"),
     Manifest(<<>>, <<StringEntry(s_python, s_caret)>>, <<>>, <<>>, "LF")}

InitPopulate ==
    /\ \E m \in GenManifests :
          files = [p \in Paths |-> IF p = "root" THEN m ELSE MissingFile]
    /\ pyproject_path = "root"
    /\ tree \in GenTrees
    /\ root_parts \in RootPaths
    /\ installed \in GenEnvs
    /\ linesep = "LF"
    /\ analyzer = NoAnalyzer
    /\ resolved = NotResolved
    /\ result = NoResult
    /\ removal = NoRemoval
    /\ removals = 0
    /\ call = NoCall
    /\ stdlib \in {STDLIB_LIST, {}}
    /\ generation = NoGeneration
    /\ cli = NoCli

Generation(path, force, discovered_packages, returned, status) ==
    [calls |-> generation.calls + 1, path |-> path, force |-> force,
     discovered |-> discovered_packages, before |-> files[path],
     returned |-> returned, status |-> status]

\* nothing was discovered, or the manifest has dependencies (or does not
\* load) and force is not set: False is returned, nothing is written
PopulateDeclined(path, force, discovered_packages) ==
    /\ ~WillPopulate(files[path], force, discovered_packages)
    /\ generation' = Generation(path, force, discovered_packages, FALSE,
                                IF discovered_packages = <<>> THEN "nothing" ELSE "declined")
    /\ UNCHANGED files

\* the populated document is written: True
PopulateWritten(path, force, discovered_packages) ==
    /\ WillPopulate(files[path], force, discovered_packages)
    /\ files' = [files EXCEPT
                    ![path] = WriteText(PopulatedText(files[path], discovered_packages,
                                                      root_parts), linesep)]
    /\ generation' = Generation(path, force, discovered_packages, TRUE, "ok")

\* mkdir or open(pyproject_path, "w") raises: the failure is printed, False
PopulateOpenFails(path, force, discovered_packages) ==
    /\ WillPopulate(files[path], force, discovered_packages)
    /\ generation' = Generation(path, force, discovered_packages, FALSE, "open_failed")
    /\ UNCHANGED files

\* the write raises after open(pyproject_path, "w") truncated or created
\* the file: the failure is printed, False
PopulateWriteFails(path, force, discovered_packages) ==
    /\ WillPopulate(files[path], force, discovered_packages)
    /\ \E written \in 0..Len(PopulatedText(files[path], discovered_packages, root_parts)) :
          files' = [files EXCEPT
                       ![path] = WriteText(SubSeq(PopulatedText(files[path],
                                                                discovered_packages,
                                                                root_parts), 1, written),
                                           linesep)]
    /\ generation' = Generation(path, force, discovered_packages, FALSE, "write_failed")

\* populate_pyproject_toml(pyproject_path, code_root, force)
Populate(path, force) ==
    /\ generation.calls < MaxPopulates
    /\ LET discovered_packages ==
               discover_used_packages(installed, stdlib, root_parts, tree)
       IN  \/ PopulateDeclined(path, force, discovered_packages)
           \/ PopulateWritten(path, force, discovered_packages)
           \/ PopulateOpenFails(path, force, discovered_packages)
           \/ PopulateWriteFails(path, force, discovered_packages)
    /\ UNCHANGED <<pyproject_path, tree, root_parts, installed, linesep, analyzer,
                   resolved, result, removal, removals, call, stdlib, cli>>

NextPopulate == \E path \in Paths, force \in BOOLEAN : Populate(path, force)

SpecPopulate == InitPopulate /\ [][NextPopulate]_vars


(***************************************************************************)
(* The command line: main() of cli.py                                      *)
(***************************************************************************)
\* what the user may type at the prompt
Answers ==
    {<<"y">>, <<"Y">>, <<" ", "y", " ">>, <<"n">>, <<>>, <<"y", "e", "s">>, <<"N">>}

\* Mutation: an answer that starts with y confirms
YesPrefixConfirms(answer) ==
    Strip(answer) # <<>> /\ Lower(Strip(answer))[1] = "y"

\* confirm = input(...).strip().lower(); confirm == "y"
Confirmed(answer) == Lower(Strip(answer)) = <<"y">>

\* find_unused_dependencies(code_root, pyproject_path): a new analyzer, its
\* two scans, the declared dependencies, the classification
find_unused_dependencies(root_file, manifest, env, code_root_parts, code_files) ==
    LET config == NewAnalyzer(root_file).config
        py_imports == scan_python_files({}, code_root_parts, code_files)
        found_imports == scan_non_python_files(py_imports, code_root_parts, code_files)
        project_dependencies == get_dependencies(manifest)
    IN  identify_unused(config, env, found_imports, project_dependencies)

InitCli ==
    /\ \E m \in Manifests \cup GenManifests, alt \in {MissingFile, AltManifest} :
          files = [p \in Paths |-> IF p = "root" THEN m ELSE alt]
    /\ pyproject_path \in Paths
    /\ tree \in Trees \cup GenTrees
    /\ root_parts = <<>>
    /\ installed \in Envs
    /\ linesep = "LF"
    /\ analyzer = NoAnalyzer
    /\ resolved = NotResolved
    /\ result = NoResult
    /\ removal = NoRemoval
    /\ removals = 0
    /\ call = NoCall
    /\ stdlib = STDLIB_LIST
    /\ generation = NoGeneration
    /\ cli = NoCli

\* pytomlcleaner --generate [--force]: populate_pyproject_toml runs at once
CliGenerate(force) ==
    /\ cli.pc = "off"
    /\ cli' = [cli EXCEPT !.pc = "done", !.generate = TRUE, !.force = force,
                          !.before = files[pyproject_path]]
    /\ LET discovered_packages ==
               discover_used_packages(installed, stdlib, root_parts, tree)
       IN  \/ PopulateDeclined(pyproject_path, force, discovered_packages)
           \/ PopulateWritten(pyproject_path, force, discovered_packages)
           \/ PopulateOpenFails(pyproject_path, force, discovered_packages)
           \/ PopulateWriteFails(pyproject_path, force, discovered_packages)
    /\ UNCHANGED <<pyproject_path, tree, root_parts, installed, linesep, analyzer,
                   resolved, result, removal, removals, call, stdlib>>

\* pytomlcleaner [--fix]: the unused packages are found and listed; with
\* --fix and a non-empty set the program stops at the prompt
CliAnalyze(fix) ==
    /\ cli.pc = "off"
    /\ LET unused_packages ==
               find_unused_dependencies(files["root"], files[pyproject_path],
                                        installed, root_parts, tree)
       IN  cli' = [cli EXCEPT
                      !.pc = IF unused_packages # {} /\ fix THEN "prompt" ELSE "done",
                      !.fix = fix,
                      !.unused = unused_packages,
                      !.before = files[pyproject_path]]
    /\ UNCHANGED <<files, pyproject_path, tree, root_parts, installed, linesep, analyzer,
                   resolved, result, removal, removals, call, stdlib, generation>>

\* the user answers the prompt: y removes, anything else cancels (the
\* manifest was read to find the packages, so remove_unused_dependencies
\* finds it)
CliAnswer(answer) ==
    /\ cli.pc = "prompt"
    /\ cli' = [cli EXCEPT !.pc = "done", !.answer = answer]
    /\ IF Confirmed(answer)
       THEN \/ RemoveWritten(pyproject_path, cli.unused)
            \/ RemoveOpenFails(pyproject_path, cli.unused)
            \/ RemoveWriteFails(pyproject_path, cli.unused)
       ELSE UNCHANGED <<files, removal>>
    /\ UNCHANGED <<pyproject_path, tree, root_parts, installed, linesep, analyzer,
                   resolved, result, removals, call, stdlib, generation>>

\* input() raises (end of input, interrupt): main ends without an answer
CliNoAnswer ==
    /\ cli.pc = "prompt"
    /\ cli' = [cli EXCEPT !.pc = "aborted"]
    /\ UNCHANGED <<files, pyproject_path, tree, root_parts, installed, linesep, analyzer,
                   resolved, result, removal, removals, call, stdlib, generation>>

NextCli ==
    \/ \E force \in BOOLEAN : CliGenerate(force)
    \/ \E fix \in BOOLEAN : CliAnalyze(fix)
    \/ \E answer \in Answers : CliAnswer(answer)
    \/ CliNoAnswer

SpecCli == InitCli /\ [][NextCli]_vars
(***************************************************************************)
(* Properties                                                              *)
(***************************************************************************)
\* the candidate import names the analyzer resolves for a declared name
Candidates(dep) == get_import_names_for_package(analyzer.config, installed, dep)

\* dep matches nothing the scans found, by the exact or the similarity pass
Unmatched(dep) ==
    /\ \A c \in Range(Candidates(dep)) : Lower(c) \notin analyzer.found_imports
    /\ \A f \in analyzer.found_imports :
          /\ ~is_similar(dep, f)
          /\ \A c \in Range(Candidates(dep)) : ~is_similar(c, f)

\* C1: a declared name that is in the user ignore-list (config key `ignore`)
\* is never in the unused output, whatever the scans found.
C1_IgnorePrecedence ==
    result.done =>
        \A dep \in result.declared :
            dep \in Range(analyzer.config.ignore) => dep \notin result.unused

\* numpy is declared, ignored by the user and matched by nothing found
C1_Witness ==
    /\ result.done
    /\ s_numpy \in result.declared
    /\ s_numpy \in Range(analyzer.config.ignore)
    /\ Unmatched(s_numpy)
    /\ s_numpy \notin result.unused

\* C2: the unused set of find_unused_dependencies contains no member of the
\* protected set IGNORE_PACKAGES.
C2_ProtectedNeverUnused ==
    result.done => result.unused \cap IGNORE_PACKAGES = {}

\* the manifest declares only pytest, nothing found matches it, and the
\* unused set is empty
C2_Witness ==
    /\ result.done
    /\ result.declared = {s_pytest}
    /\ Unmatched(s_pytest)
    /\ result.unused = {}

\* C3: the resolver returns exactly the value of the first tier that answers
\* for the name, in the order custom mapping, built-in table, installed
\* metadata, fallback, and never a merge; a key of both the custom mappings
\* and the built-in table yields the custom value.
C3_FirstTierWins ==
    resolved.called =>
        LET n      == Normalized(resolved.name)
            custom == n \in CustomKeys(analyzer.config)
            base   == n \in BaseKeys
            meta   == MetadataHit(installed, resolved.name)
        IN  /\ custom => resolved.imports = AsList(CustomGet(analyzer.config, n))
            /\ ~custom /\ base => resolved.imports = BaseGet(n)
            /\ ~custom /\ ~base /\ meta =>
                  resolved.imports = StrippedLines(distribution(installed, resolved.name).text)
            /\ ~custom /\ ~base /\ ~meta =>
                  resolved.imports = <<Replace(resolved.name, "-", <<"_">>)>>

\* a name that is a key of both tables, with different values, resolved to
\* the custom value
C3_Witness ==
    /\ resolved.called
    /\ Normalized(resolved.name) \in CustomKeys(analyzer.config) \cap BaseKeys
    /\ AsList(CustomGet(analyzer.config, Normalized(resolved.name)))
          # BaseGet(Normalized(resolved.name))
    /\ resolved.imports = AsList(CustomGet(analyzer.config, Normalized(resolved.name)))

\* C4: for every non-empty package name, every configuration and every
\* installed-metadata content the resolver returns at least one candidate.
C4_ResolverTotal ==
    resolved.called /\ resolved.name # <<>> => Len(resolved.imports) >= 1

\* C5: the unused output is exactly the set of declared names that are not
\* in the user ignore-list, not in the protected set, have no case-folded
\* candidate import name in the referenced set and no is_similar hit between
\* the declared name or any candidate and any referenced name.
C5_ClassificationResult ==
    result.done =>
        result.unused =
            {dep \in result.declared :
                /\ dep \notin Range(analyzer.config.ignore)
                /\ dep \notin IGNORE_PACKAGES
                /\ Unmatched(dep)}

\* the manifest declares requests and numpy, the scans found only requests,
\* and the unused set is {numpy}
C5_Witness ==
    /\ result.done
    /\ result.declared = {s_requests, s_numpy}
    /\ analyzer.found_imports = {s_requests}
    /\ result.unused = {s_numpy}

\* dep has a built-in table entry that lists an import name whose
\* case-folded form was found
BuiltinEntryFound(dep) ==
    /\ Normalized(dep) \in BaseKeys
    /\ \E imp \in Range(BaseGet(Normalized(dep))) : Lower(imp) \in analyzer.found_imports

\* C6 as stated: a declared package whose built-in table entry lists an
\* import name that, case-folded, is in the referenced set is never reported
\* unused.
C6_BuiltinEntryUsed ==
    result.done =>
        \A dep \in result.declared : BuiltinEntryFound(dep) => dep \notin result.unused

\* C6 amended: ... is never reported unused, provided the custom mappings
\* have no entry for the package (a custom entry replaces the built-in one).
C6_BuiltinEntryUsedUnlessCustom ==
    result.done =>
        \A dep \in result.declared :
            BuiltinEntryFound(dep) /\ Normalized(dep) \notin CustomKeys(analyzer.config)
                => dep \notin result.unused

\* pillow is declared, its table entry is the upper-case PIL, the scans
\* found pil, and the unused set is empty
C6_Witness ==
    /\ result.done
    /\ result.declared = {s_pillow}
    /\ s_PIL \in Range(BaseGet(s_pillow))
    /\ s_pil \in analyzer.found_imports
    /\ result.unused = {}

\* the files a sub-scan reads: not skipped by the exclusion test, readable
ScannedFiles(exts) ==
    {f \in tree : f.ext \in exts /\ f.ok /\ ~Excluded(root_parts, f)}

\* C7: after scan_python_files and scan_non_python_files, in either order,
\* the referenced set is the union of both sub-scans: it holds the
\* lower-case name of every module a scanned source file imports (each part
\* of a dotted name) and every built-in table key a scanned
\* script/YAML/Dockerfile/text file contains as a word.
C7_ScannerUnion ==
    BothScansRun =>
        /\ analyzer.found_imports =
              scan_python_files({}, root_parts, tree)
              \cup scan_non_python_files({}, root_parts, tree)
        /\ \A f \in ScannedFiles({".py"}) : \A i \in 1..Len(f.stmts) :
              /\ f.stmts[i].type = "import" =>
                    \A m \in Range(f.stmts[i].names) :
                        \A part \in Range(SplitDots(m)) :
                            Lower(part) \in analyzer.found_imports
              /\ f.stmts[i].type = "from" =>
                    \A part \in Range(SplitDots(f.stmts[i].module)) :
                        Lower(part) \in analyzer.found_imports
        /\ \A g \in ScannedFiles(extensions) : \A k \in BaseKeys :
              WordSearch(k, g.text) => k \in analyzer.found_imports

\* the auxiliary scan ran first, then the structured scan; a source file
\* imports PIL, a shell script contains the word gdown, and both are found
C7_Witness ==
    /\ analyzer.scan_log = <<"aux", "py">>
    /\ \E f \in ScannedFiles({".py"}) : \E i \in 1..Len(f.stmts) :
          f.stmts[i].module = s_PIL
    /\ \E g \in ScannedFiles({".sh"}) : WordSearch(s_gdown, g.text)
    /\ {s_pil, s_gdown} \subseteq analyzer.found_imports

\* the manifest as remove_unused_dependencies found it and as it left it
Before == Parse(ReadText(removal.before))

After == Parse(ReadText(files[removal.path]))

FlatList(doc) == GetItems(doc, T_project, k_dependencies, <<>>)

NestedKeys(doc) ==
    LET entries == TableEntries(doc, T_poetry_deps)
    IN  [i \in 1..Len(entries) |-> entries[i].key]

\* C8 as stated: after remove_unused_dependencies the flat dependency list
\* is exactly the subsequence of the original list whose bare lower-case
\* names are not in U, and the nested table keeps exactly the keys whose
\* lower-case name is not in U.
C8_RemovalExact ==
    removal.status = "ok" =>
        /\ FlatList(After) =
              SelectSeq(FlatList(Before),
                        LAMBDA e : Lower(BareName(e)) \notin removal.unused_packages)
        /\ NestedKeys(After) =
              SelectSeq(NestedKeys(Before),
                        LAMBDA k : Lower(k) \notin removal.unused_packages)

\* C8 amended: ... and the nested table keeps exactly the keys whose
\* lower-case name is not in U or is `python`.
C8_RemovalExactKeepingPython ==
    removal.status = "ok" =>
        /\ FlatList(After) =
              SelectSeq(FlatList(Before),
                        LAMBDA e : Lower(BareName(e)) \notin removal.unused_packages)
        /\ NestedKeys(After) =
              SelectSeq(NestedKeys(Before),
                        LAMBDA k : \/ Lower(k) \notin removal.unused_packages
                                   \/ Lower(k) = s_python)

\* numpy is removed from a flat list that holds it twice, in two letter
\* cases, between entries that stay, and from the nested table
C8_Witness ==
    /\ removal.status = "ok"
    /\ removal.unused_packages = {s_numpy}
    /\ FlatList(Before) = <<s_python_spec, s_NumPy, s_requests, s_numpy_spec>>
    /\ FlatList(After) = <<s_python_spec, s_requests>>
    /\ NestedKeys(Before) = <<s_python, s_NumPy>>
    /\ NestedKeys(After) = <<s_python>>

IsPythonSpec(e) == Lower(BareName(e)) = s_python

IsPythonKey(k) == Lower(k) = s_python

\* C10: for every unused set, including one that contains `python`,
\* remove_unused_dependencies leaves every entry for `python` in place, in
\* the flat dependency list and in the nested dependency table.
C10_PythonNeverRemoved ==
    removal.status = "ok" =>
        /\ SelectSeq(FlatList(After), IsPythonSpec) = SelectSeq(FlatList(Before), IsPythonSpec)
        /\ SelectSeq(NestedKeys(After), IsPythonKey) = SelectSeq(NestedKeys(Before), IsPythonKey)

\* C11: is_similar is symmetric: for all names a, b and every threshold,
\* is_similar(a, b, threshold) equals is_similar(b, a, threshold).
C11_Symmetric ==
    call.fn = "is_similar" => call.similar = call.reverse

\* C12: is_similar(x, x, threshold) is true for every non-empty name x and
\* every threshold.
C12_Reflexive ==
    call.fn = "is_similar" /\ call.a = call.b /\ call.a # <<>> => call.similar

\* a name with separators and capitals compared with itself under a
\* threshold no ratio can reach
C12_Witness ==
    /\ call.fn = "is_similar"
    /\ call.a = n_Py_YAML
    /\ call.b = n_Py_YAML
    /\ call.num > call.den
    /\ call.similar

C15_AtomicWrite ==
    removal.status \in {"open_failed", "write_failed"} =>
        \/ files[removal.path] = removal.before
        \/ ReadText(files[removal.path]) =
              CleanedText(removal.before, removal.unused_packages)

\* the files a scan reads without an exception, and those that raise
GoodFiles(exts) == {f \in ScannedFiles(exts) : f.ok}

BadFiles(exts) ==
    {f \in tree : f.ext \in exts /\ ~f.ok /\ ~Excluded(root_parts, f)}

\* C16: a file that cannot be read, decoded or parsed does not abort the
\* scan and contributes nothing: after both scans the referenced set is
\* exactly what the files that raise nothing contribute, every one of them
\* included.
C16_FailureIsolation ==
    BothScansRun =>
        analyzer.found_imports =
            UNION {UNION {AstNames(f.stmts[i]) \cup RegexNames(f.stmts[i]) :
                             i \in 1..Len(f.stmts)}
                   \cup UNION {PartsLower(c) : c \in Range(f.comments)} :
                      f \in GoodFiles({".py"})}
            \cup {k \in BaseKeys : \E g \in GoodFiles(extensions) : WordSearch(k, g.text)}

\* the tree holds a source file that raises and a YAML file that raises;
\* what they alone mention is not found, what a good file imports is
C16_Witness ==
    /\ BothScansRun
    /\ \E f \in BadFiles({".py"}) : \E i \in 1..Len(f.stmts) :
          s_requests \in Range(f.stmts[i].names)
    /\ \E g \in BadFiles(extensions) : WordSearch(s_gdown, g.text)
    /\ s_requests \notin analyzer.found_imports
    /\ s_gdown \notin analyzer.found_imports
    /\ s_cv2 \in analyzer.found_imports

\* C17: when the manifest path does not exist, get_dependencies and
\* find_unused_dependencies return the empty set, and
\* remove_unused_dependencies returns without creating or writing any file.
C17_MissingManifest ==
    /\ [](result.done /\ ~files[pyproject_path].exists =>
             result.declared = {} /\ result.unused = {})
    /\ [][\A p \in Paths :
             removal'.called /\ removal' # removal /\ removal'.path = p /\ ~files[p].exists
                 => files' = files /\ removal'.status = "not_found"]_vars

\* the analysis of a missing manifest finished and a removal on a missing
\* manifest returned
C17_Witness ==
    /\ result.done
    /\ ~files[pyproject_path].exists
    /\ removal.status = "not_found"
    /\ ~files[removal.path].exists

\* the manifest as populate_pyproject_toml found it and as it left it
GenBefore == Parse(ReadText(generation.before))

GenAfter == Parse(ReadText(files[generation.path]))

\* the manifest loads and declares a dependency in one of its two dialects
DeclaresDependencies(file) ==
    /\ file.exists
    /\ ~Malformed(file)
    /\ \/ FlatList(Parse(ReadText(file))) # <<>>
       \/ NestedKeys(Parse(ReadText(file))) # <<>>

\* C18: populate_pyproject_toml with force=False on a manifest that already
\* has a non-empty dependency declaration returns False and leaves the
\* manifest file unchanged, whatever packages the scan discovered.
C18_ProtectedWithoutForce ==
    generation.calls > 0 /\ ~generation.force /\ DeclaresDependencies(generation.before) =>
        /\ ~generation.returned
        /\ files[generation.path] = generation.before

\* packages were discovered, the manifest lists numpy, force is not set:
\* False, and the manifest is as it was
C18_Witness ==
    /\ generation.calls > 0
    /\ ~generation.force
    /\ s_requests \in Range(generation.discovered)
    /\ FlatList(GenBefore) = <<s_numpy>>
    /\ ~generation.returned
    /\ files[generation.path] = generation.before

\* C19: when at least one package is discovered and the manifest is
\* missing, has no dependencies, or force=True, populate_pyproject_toml
\* (its write not failing) returns True and the manifest then exists with a
\* [project] section whose dependencies list is exactly the sorted list of
\* discovered packages, replacing any earlier list; when no package is
\* discovered it returns False and writes nothing.
C19_PopulateSuccess ==
    generation.calls > 0 =>
        LET discovered == discover_used_packages(installed, stdlib, root_parts, tree)
        IN  /\ discovered = <<>> =>
                  ~generation.returned /\ files[generation.path] = generation.before
            /\ /\ discovered # <<>>
               /\ \/ ~generation.before.exists
                  \/ generation.force
                  \/ ~Malformed(generation.before) /\ ~DeclaresDependencies(generation.before)
               /\ generation.status \notin {"open_failed", "write_failed"}
               => /\ generation.returned
                  /\ files[generation.path].exists
                  /\ HasTable(GenAfter, T_project)
                  /\ FlatList(GenAfter) = discovered
                  /\ \A i \in 1..Len(discovered), j \in 1..Len(discovered) :
                        i < j => discovered[i] # discovered[j]
                                 /\ StrLessEq(discovered[i], discovered[j])

\* a manifest listing numpy under its own project name is overwritten with
\* force: the three discovered packages replace the list, the name stays
C19_Witness ==
    /\ generation.calls > 0
    /\ generation.force
    /\ generation.returned
    /\ FlatList(GenBefore) = <<s_numpy>>
    /\ FlatList(GenAfter) = <<Lower(s_BeautifulSoup), s_beautifulsoup4, s_requests>>
    /\ GetItems(GenAfter, T_project, k_name, <<>>) = <<s_existing_project>>

\* the top-level modules the source files that are read import, lower-case
ImportedModules ==
    UNION {UNION {IF f.stmts[i].type = "import"
                  THEN {Lower(SplitFirst(n, ".")) : n \in Range(f.stmts[i].names)}
                  ELSE {Lower(SplitFirst(f.stmts[i].module, "."))} \ {<<>>} :
                     i \in 1..Len(f.stmts)} :
              f \in GoodFiles({".py"})}

\* the modules and packages of the project root, lower-case: its .py files
\* and its directories that hold .py files
RootModules ==
    {Lower(f.name) : f \in {g \in tree : g.ext = ".py" /\ g.dirs = <<>>}}
    \cup {d \in ImportedModules :
             \E g \in tree : g.ext = ".py" /\ Len(g.dirs) = 1 /\ g.dirs[1] = Str(d)}

\* C20: discover_used_packages returns a sorted, duplicate-free list of
\* package names that contains a package for every external module imported
\* in the source tree and contains no standard-library module, no local
\* module or package of the project root, and no protected package.
C20_Discovery ==
    generation.calls > 0 =>
        LET discovered == generation.discovered
        IN  /\ \A i \in 1..Len(discovered), j \in 1..Len(discovered) :
                  i < j => discovered[i] # discovered[j]
                           /\ StrLessEq(discovered[i], discovered[j])
            /\ \A m \in ImportedModules :
                  m \notin STDLIB_LIST \cup RootModules \cup IGNORE_PACKAGES
                      => PackageOf(installed, m) \in Range(discovered)
            /\ Range(discovered) \cap STDLIB_LIST = {}
            /\ Range(discovered) \cap RootModules = {}
            /\ Range(discovered) \cap IGNORE_PACKAGES = {}

\* the answers that are y once trimmed and case-folded
YesAnswers == {<<"y">>, <<"Y">>, <<" ", "y", " ">>}

\* C14 (as written): in every path of the command line the manifest is
\* rewritten only after an explicit y at the prompt.
C14_ConfirmationEveryPath ==
    cli.pc \in {"done", "aborted"} =>
        \/ files[pyproject_path] = cli.before
        \/ cli.fix /\ cli.answer \in YesAnswers

\* C14: in the analysis flow (no --generate) the manifest is rewritten only
\* after the user answered y (trimmed, case-folded) to the prompt; with any
\* other answer, without --fix, or with an empty unused set it is left
\* unchanged. With --generate there is no prompt: the manifest is written
\* when it is missing or declares no dependency, and an existing dependency
\* list is overwritten only when --force is given.
C14_Confirmation ==
    /\ cli.pc = "off" => ~removal.called /\ generation.calls = 0
    /\ cli.pc \in {"prompt", "done", "aborted"} /\ ~cli.generate =>
          /\ files[pyproject_path] # cli.before =>
                cli.pc = "done" /\ cli.fix /\ cli.answer \in YesAnswers /\ cli.unused # {}
          /\ cli.pc = "prompt" => cli.fix /\ cli.unused # {} /\ ~removal.called
          /\ cli.answer \notin YesAnswers \/ ~cli.fix \/ cli.unused = {} =>
                files[pyproject_path] = cli.before /\ ~removal.called
          /\ generation.calls = 0
    /\ cli.generate =>
          /\ cli.pc = "done" /\ ~removal.called
          /\ files[pyproject_path] # cli.before =>
                \/ cli.force
                \/ ~cli.before.exists
                \/ ~Malformed(cli.before) /\ ~DeclaresDependencies(cli.before)

\* --fix, unused packages found, the user typed " y ": the manifest was
\* rewritten without them
C14_Witness ==
    /\ cli.pc = "done"
    /\ cli.fix
    /\ cli.answer = <<" ", "y", " ">>
    /\ cli.unused # {}
    /\ removal.status = "ok"
    /\ files[pyproject_path] # cli.before
    /\ get_dependencies(files[pyproject_path]) \cap cli.unused = {}

\* C21: for every call find_unused_dependencies(code_root, pyproject_path)
\* the ignore list and custom_mappings applied are those of the
\* [tool.pytomlcleaner] section of the manifest at pyproject_path, the
\* document the declared dependencies are read from.
C21_ConfigFromManifest ==
    /\ analyzer.state = "ready" =>
          analyzer.config = _load_config(files[pyproject_path])
    /\ result.done =>
          result.unused = identify_unused(_load_config(files[pyproject_path]), installed,
                                          analyzer.found_imports, result.declared)

\* the name of a specifier: cut at the first of ; < > = ~ ! and at the
\* opening bracket of its extras, trimmed
SpecifierName(dep) == Strip(SplitFirst(BareName(dep), "["))

\* C22: for every specifier of the flat dependency list get_dependencies
\* yields the lower-case bare package name: the specifier cut at the first
\* of ; < > = ~ !, trimmed, with version, marker and extras syntax stripped.
C22_DeclaredNames ==
    result.done /\ files[pyproject_path].exists =>
        LET deps == FlatList(Parse(ReadText(files[pyproject_path])))
        IN  /\ \A i \in 1..Len(deps) : Lower(SpecifierName(deps[i])) \in result.declared
            /\ \A name \in result.declared :
                  /\ name = Lower(name)
                  /\ Range(name) \cap {";", "<", ">", "=", "~", "!", "[", "]", " "} = {}

\* C23: the referenced set against which find_unused_dependencies
\* classifies the declared names holds no standard-library module name and
\* no name of a local module file or local package directory of the root.
C23_PostFilter ==
    result.done =>
        /\ analyzer.found_imports \cap stdlib = {}
        /\ \A name \in analyzer.found_imports : ~is_local_module(name, tree)

\* the files no excluded directory lies between the scan root and
FilesBelowRoot(exts) ==
    {f \in tree : f.ext \in exts /\ Range(f.dirs) \cap EXCLUDE_DIRS = {}}

\* C24: a file under the scan root is scanned if and only if no directory
\* between the scan root and the file has a name in the excluded list,
\* whatever the names of the directories that contain the scan root: after
\* both scans the referenced set is what exactly those files contribute.
C24_DirectoryExclusion ==
    BothScansRun =>
        analyzer.found_imports =
            UNION {FileImports(f) : f \in FilesBelowRoot({".py"})}
            \cup UNION {FileTools(f) : f \in FilesBelowRoot(extensions)}

=============================================================================
